---- MODULE Spec2Model ----
(***************************************************************************)
(* The partition-merge operator of the flux execution core                 *)
(* (universe.PartitionMergeTransformation) and the attribute validator of  *)
(* the physical plan, as state machines.                                   *)
(*                                                                         *)
(* Each parent of the operator is a goroutine that calls into it.  The     *)
(* three methods that take t.mu are modelled in two steps, both inside     *)
(* the critical section: the step that takes the lock and writes the       *)
(* parent's record, and the step that computes the aggregate, calls the    *)
(* Dataset and releases the lock.  Process takes no lock: its two steps    *)
(* are the copy of the table and the call of the Dataset.                  *)
(*                                                                         *)
(* Further sections model the run of a query as the tests drive it, the    *)
(* allocator the operators share, the test command's executor              *)
(* (testExecutor.Run) and the interpreter's Synthesis.                     *)
(***************************************************************************)
EXTENDS Integers, Sequences, FiniteSets, TLC

\* ------------------------------------------------------------------ bounds

\* Calls the parents make on the operator in one run, all parents together.
MaxCalls == 3

\* Attributes set on the nodes of one plan (withRequiredAttr, withOutputAttr).
MaxAttrs == 4

\* Tables a sink hands to the caller in one execution.
MaxTables == 2

\* The largest memory quota of a query, in bytes.
MaxQuota == 3

\* Results the result iterator of one query hands out.
MaxResults == 2

\* Calls of Synthesis and SynthesisTo on one interpreter, and the statements
\* in the body of one file.
MaxSynth == 2
MaxBody == 2

\* ------------------------------------------------------------------ inputs

\* The operators of one query that share its allocator, and the sizes in
\* bytes they ask for.
Operators == {"o1", "o2"}
Sizes == {1, 2}

\* The ids handed to NewPartitionMergeTransformation as `parents`.
Parents == {"p1", "p2"}

\* The times the parents supply (execute.Time is a signed int64 of
\* nanoseconds: negative before the epoch).
Times == {0 - 1, 1}

\* math.MaxInt64, the start value of the minimum: above every time supplied.
MaxInt64 == (CHOOSE m \in Times : \A x \in Times : x <= m) + 1

NoErr == "nil"
Errors == {"e1", "e2"}

\* The errors testExecutor.Run makes itself, and those of json.Marshal,
\* c.Compile and program.Start as Run returns them.
LeakError == "Memory leak detected"
OutputError == "Expected test to have no output. Got:"
StartErrors == {"marshal error", "failed to compile", "error while executing program"}

\* What t.dataset.RetractTable returns: nil or its error.
RetractResults == {NoErr, "eretract"}

Keys == {"k1", "k2"}

\* A table is a group key and its column readers (buffers) in order; a buffer
\* is the sequence of its rows.
Tables ==
    { [key |-> "k1", bufs |-> <<<<1>>, <<2, 1>>>>],
      [key |-> "k2", bufs |-> <<<<2, 1>>>>] }

NoCall == [op |-> "none"]

\* plan.ParallelRunKey and plan.ParallelMergeKey.
ParallelRunKey == "parallel-run"
ParallelMergeKey == "parallel-merge"
AttrKeys == {ParallelRunKey, ParallelMergeKey}

\* The Factor of a ParallelRunAttribute or ParallelMergeAttribute.
Factors == {1, 2}

\* PlanSpec.Nodes of the tests, and the Edges tried: a chain, a fan-in and a
\* fan-out (indices from 1).
NodeIDs == <<"from-test", "merge", "filter">>
Topologies == { {<<1, 2>>, <<2, 3>>}, {<<1, 3>>, <<2, 3>>}, {<<1, 2>>, <<1, 3>>} }

\* No attribute set, the value of a fresh node's attribute maps.
NoAttrs == [k \in {} |-> 0]

\* plantest.CreatePlanSpec of nodes made by createPhysicalNode without options.
PlanSpec(edges) ==
    [nodes |-> [i \in 1..Len(NodeIDs) |->
                   [id |-> NodeIDs[i], required |-> NoAttrs, output |-> NoAttrs]],
     edges |-> edges]

NoPlan == [nodes |-> <<>>, edges |-> {}]

\* A nil error of ValidateAttributes; an error is the sequence of the pieces
\* of its message.
NilError == <<>>

VARIABLES
    parentState,  \* t.parentState: id -> (mark, processing, finished)
    mu,           \* t.mu: the id of the parent whose call holds it, or "free"
    pc,           \* where each parent's goroutine is
    call,         \* the call each parent is inside
    received,     \* the calls in the order the operator began to handle them
    dsLog,        \* the calls t.dataset has received, in order
    plan,         \* the physical plan: its nodes with their attributes, its edges
    validated,    \* whether plan.ValidateAttributes has run
    verr,         \* what plan.ValidateAttributes returned
    phase,        \* where the execution of the query is
    terr,         \* the terminal error handed to the caller
    built,        \* the nodes with a Transformation and Dataset built
    nodeErr,      \* what each node's Dataset finished with, if it has
    finishLog,    \* the nodes in the order their Datasets finished
    qerr,         \* the error the executor aborted the query with
    todo,         \* the results the caller has yet to read
    cur,          \* the result the caller is reading, 0 for none
    got,          \* the tables the caller has received
    limit,        \* the allocator's quota in bytes
    allocated,    \* the allocator's running byte counter
    held,         \* the bytes each operator has allocated and not freed
    acall,        \* the allocate call each operator is inside
    alast,        \* the allocator call that returned last
    ctxDone,      \* whether the query's context has been cancelled
    rpc,          \* where testExecutor.Run is
    rn,           \* the results that results.Next() has handed out
    rdone,        \* the results whose Tables().Do has returned nil
    output,       \* the tables written to `output`
    released,     \* whether results.Release() has been called
    rqe,          \* what results.Err() returned, "none" before the call
    rerr,         \* Run's variable err
    rsize,        \* the size mem.AssertSize found, -1 before the call
    lerrs,        \* logger.errs
    rret,         \* what Run returned, "none" before it returns
    code,         \* itrp.code
    pkgName,      \* itrp.pkgName
    ilog          \* the calls of Synthesis and SynthesisTo that have returned

opVars == <<parentState, mu, pc, call, received, dsLog>>
planVars == <<plan, validated, verr>>
execVars == <<phase, terr, built, nodeErr, finishLog, qerr, todo, cur, got>>
allocVars == <<limit, allocated, held, acall, alast>>
envVars == <<allocVars, ctxDone>>
runVars == <<rpc, rn, rdone, output, released, rqe, rerr, rsize, lerrs, rret>>
itrpVars == <<code, pkgName, ilog>>
cmdVars == <<runVars, itrpVars>>
queryVars == <<planVars, execVars, envVars, cmdVars>>
vars == <<parentState, mu, pc, call, received, dsLog, plan, validated, verr,
          phase, terr, built, nodeErr, finishLog, qerr, todo, cur, got,
          limit, allocated, held, acall, alast, ctxDone,
          rpc, rn, rdone, output, released, rqe, rerr, rsize, lerrs, rret,
          code, pkgName, ilog>>

\* ------------------------------------------------- the operator's helpers

\* new(parallelParentState): the zero value of the record.
parallelParentState == [mark |-> 0, processing |-> 0, finished |-> FALSE]

\* The loop `min := MaxInt64; for ... if v < min { min = v }` over a set of values.
MinOf(S) == CHOOSE m \in S \cup {MaxInt64} : \A x \in S \cup {MaxInt64} : m <= x

\* Mutant of MinMark: the loop reads the other field of the record.
MinMarkOfProcessing(ps) == MinOf({ps[q].processing : q \in DOMAIN ps})

\* UpdateWatermark's loop over t.parentState: the smallest mark.
MinMark(ps) == MinOf({ps[q].mark : q \in DOMAIN ps})

\* Mutant of MinProcessing: the loop reads the other field of the record.
MinProcessingOfMark(ps) == MinOf({ps[q].mark : q \in DOMAIN ps})

\* UpdateProcessingTime's loop over t.parentState: the smallest processing time.
MinProcessing(ps) == MinOf({ps[q].processing : q \in DOMAIN ps})

\* Finish's loop: finished = finished && state.finished, over every parent.
AllFinished(ps) == \A q \in DOMAIN ps : ps[q].finished

\* passthroughBuilder.AppendBuffer(er), called by tbl.Do for each column
\* reader of the table in order.
RECURSIVE AppendBuffers(_, _)
AppendBuffers(builder, bufs) ==
    IF bufs = <<>> THEN builder
    ELSE AppendBuffers([builder EXCEPT !.bufs = Append(@, Head(bufs))], Tail(bufs))

\* Mutant of CopyTable: the copy stops after the first column reader.
CopyTableFirstBuffer(tbl) ==
    [key |-> tbl.key, bufs |-> IF tbl.bufs = <<>> THEN <<>> ELSE <<Head(tbl.bufs)>>]

\* Process's copy: NewBufferedBuilder(tbl.Key(), alloc), tbl.Do(AppendBuffer),
\* passthroughBuilder.Table().
CopyTable(tbl) == AppendBuffers([key |-> tbl.key, bufs |-> <<>>], tbl.bufs)

\* The rows of a table, in order.
RECURSIVE Rows(_)
Rows(bufs) == IF bufs = <<>> THEN <<>> ELSE Head(bufs) \o Rows(Tail(bufs))

\* Mutant of FinishCalls: the error is handed on only once every parent has
\* finished.
FinishCallsWhenAllFinished(ps, err) ==
    IF AllFinished(ps) THEN <<err>> ELSE <<>>

\* Mutant of FinishCalls: only an error is handed on, never the nil of the
\* last parent.
FinishCallsErrorOnly(ps, err) == IF err # NoErr THEN <<err>> ELSE <<>>

\* What Finish hands to t.dataset: the error if there is one, then nil if
\* every parent's finished flag is set.
FinishCalls(ps, err) ==
    (IF err # NoErr THEN <<err>> ELSE <<>>)
        \o (IF AllFinished(ps) THEN <<NoErr>> ELSE <<>>)

\* ------------------------------------------------------------ the log

\* The calls that have begun and not returned.
OpenCalls == {call[q].n : q \in {r \in Parents : call[r] # NoCall}}

\* A call as the operator receives it: `open` are the calls still running
\* when it begins, `cancelled` is whether t.ctx was done by then, `ret` is
\* what it returned.
Entry(op, id, arg) ==
    [op |-> op, id |-> id, arg |-> arg, open |-> OpenCalls,
     cancelled |-> ctxDone, ret |-> "pending"]

\* A call of a method of t.dataset, made inside call number call[id].n.
DsCall(op, arg, id) == [op |-> op, arg |-> arg, from |-> id, n |-> call[id].n]

\* Mutant of Deliver: the newest call overtakes the ones made before it.
DeliverInFront(log, calls) == calls \o log

\* t.dataset.<method>(...): the Dataset receives its calls in the order made.
Deliver(log, calls) == log \o calls

Budget == Len(received) < MaxCalls

Begin(p, op, arg) ==
    /\ received' = Append(received, Entry(op, p, arg))
    /\ call' = [call EXCEPT ![p] = [op |-> op, arg |-> arg, n |-> Len(received) + 1]]

Return(p, res) ==
    /\ received' = [received EXCEPT ![call[p].n].ret = res]
    /\ call' = [call EXCEPT ![p] = NoCall]

\* ------------------------------------------------------------ the state

\* alloc := &memory.ResourceAllocator{...} with a quota of q bytes: nothing
\* allocated, no call in progress.
InitAllocator(q) ==
    /\ limit = q
    /\ allocated = 0
    /\ held = [o \in Operators |-> 0]
    /\ acall = [o \in Operators |-> NoCall]
    /\ alast = NoCall

\* testExecutor.Run has been called and has done nothing yet.
InitRun ==
    /\ rpc = "start"
    /\ rn = 0
    /\ rdone = 0
    /\ output = 0
    /\ released = FALSE
    /\ rqe = "none"
    /\ rerr = NoErr
    /\ rsize = 0 - 1
    /\ lerrs = 0
    /\ rret = "none"

\* An interpreter that has synthesised nothing: no code, no package name.
InitInterpreter ==
    /\ code = <<>>
    /\ pkgName = ""
    /\ ilog = <<>>

\* A query before plan.ValidateAttributes: nothing built, nothing read.
InitExecution ==
    /\ phase = "Validating"
    /\ terr = NilError
    /\ built = {}
    /\ nodeErr = <<>>
    /\ finishLog = <<>>
    /\ qerr = NilError
    /\ todo = {}
    /\ cur = 0
    /\ got = 0
    /\ InitAllocator(MaxQuota)
    /\ ctxDone = FALSE
    /\ InitRun
    /\ InitInterpreter

\* NewPartitionMergeTransformation: one zero record per parent id.
Init ==
    /\ parentState = [q \in Parents |-> parallelParentState]
    /\ mu = "free"
    /\ pc = [q \in Parents |-> "idle"]
    /\ call = [q \in Parents |-> NoCall]
    /\ received = <<>>
    /\ dsLog = <<>>
    /\ plan = NoPlan
    /\ validated = FALSE
    /\ verr = NilError
    /\ InitExecution

\* ------------------------------------------------------ RetractTable

\* Mutant of RetractTable: the Dataset's error is dropped and nil returned.
RetractTableReturnsNil(p, key, res) ==
    /\ UNCHANGED queryVars
    /\ pc[p] = "idle" /\ Budget
    /\ received' = Append(received, [Entry("RetractTable", p, key) EXCEPT !.ret = NoErr])
    /\ dsLog' = Deliver(dsLog, <<[op |-> "RetractTable", arg |-> key, from |-> p,
                                   n |-> Len(received) + 1, ret |-> res]>>)
    /\ UNCHANGED <<parentState, mu, pc, call>>

\* RetractTable(id, key): return t.dataset.RetractTable(key), no lock; res is
\* what the Dataset returns.
RetractTable(p, key, res) ==
    /\ UNCHANGED queryVars
    /\ pc[p] = "idle" /\ Budget
    /\ received' = Append(received, [Entry("RetractTable", p, key) EXCEPT !.ret = res])
    /\ dsLog' = Deliver(dsLog, <<[op |-> "RetractTable", arg |-> key, from |-> p,
                                   n |-> Len(received) + 1, ret |-> res]>>)
    /\ UNCHANGED <<parentState, mu, pc, call>>

\* ----------------------------------------------------------- Process

\* Mutant of ProcessCopy: when the copy fails the error is returned and the
\* table is handed to the Dataset all the same.
ProcessCopyForwardsOnFailure(p, tbl, ok) ==
    /\ UNCHANGED queryVars
    /\ pc[p] = "idle" /\ Budget
    /\ IF ok
       THEN /\ received' = Append(received, Entry("Process", p, tbl))
            /\ call' = [call EXCEPT ![p] = [op |-> "Process", arg |-> CopyTable(tbl),
                                            n |-> Len(received) + 1]]
            /\ pc' = [pc EXCEPT ![p] = "copied"]
            /\ UNCHANGED dsLog
       ELSE /\ received' = Append(received,
                                  [Entry("Process", p, tbl) EXCEPT !.ret = "ecopy"])
            /\ dsLog' = Deliver(dsLog, <<[op |-> "Process", arg |-> tbl, from |-> p,
                                           n |-> Len(received) + 1]>>)
            /\ UNCHANGED <<call, pc>>
    /\ UNCHANGED <<parentState, mu>>

\* Process(id, tbl) up to the copy: ok is whether building the copy worked;
\* on failure the error is returned and nothing else happens.
ProcessCopy(p, tbl, ok) ==
    /\ UNCHANGED queryVars
    /\ pc[p] = "idle" /\ Budget
    /\ IF ok
       THEN /\ received' = Append(received, Entry("Process", p, tbl))
            /\ call' = [call EXCEPT ![p] = [op |-> "Process", arg |-> CopyTable(tbl),
                                            n |-> Len(received) + 1]]
            /\ pc' = [pc EXCEPT ![p] = "copied"]
       ELSE /\ received' = Append(received,
                                  [Entry("Process", p, tbl) EXCEPT !.ret = "ecopy"])
            /\ UNCHANGED <<call, pc>>
    /\ UNCHANGED <<parentState, mu, dsLog>>

\* return t.dataset.Process(out)
ProcessForward(p) ==
    /\ UNCHANGED queryVars
    /\ pc[p] = "copied"
    /\ dsLog' = Deliver(dsLog, <<DsCall("Process", call[p].arg, p)>>)
    /\ pc' = [pc EXCEPT ![p] = "idle"]
    /\ Return(p, NoErr)
    /\ UNCHANGED <<parentState, mu>>

\* ----------------------------------------------------- UpdateWatermark

\* Mutant of UpdateWatermarkLock: the record is written without waiting for
\* t.mu.
UpdateWatermarkNoLock(p, mark) ==
    /\ UNCHANGED queryVars
    /\ pc[p] = "idle" /\ Budget
    /\ mu' = p
    /\ parentState' = [parentState EXCEPT ![p].mark = mark]
    /\ pc' = [pc EXCEPT ![p] = "cs"]
    /\ Begin(p, "UpdateWatermark", mark)
    /\ UNCHANGED dsLog

\* t.mu.Lock(); t.parentState[id].mark = mark
UpdateWatermarkLock(p, mark) ==
    /\ UNCHANGED queryVars
    /\ pc[p] = "idle" /\ Budget
    /\ mu = "free"
    /\ mu' = p
    /\ parentState' = [parentState EXCEPT ![p].mark = mark]
    /\ pc' = [pc EXCEPT ![p] = "cs"]
    /\ Begin(p, "UpdateWatermark", mark)
    /\ UNCHANGED dsLog

\* the minimum, t.dataset.UpdateWatermark(min), and the deferred Unlock
UpdateWatermarkForward(p) ==
    /\ UNCHANGED queryVars
    /\ pc[p] = "cs" /\ call[p].op = "UpdateWatermark"
    /\ dsLog' = Deliver(dsLog, <<DsCall("UpdateWatermark", MinMark(parentState), p)>>)
    /\ mu' = "free"
    /\ pc' = [pc EXCEPT ![p] = "idle"]
    /\ Return(p, NoErr)
    /\ UNCHANGED parentState

\* ------------------------------------------------ UpdateProcessingTime

\* t.mu.Lock(); t.parentState[id].processing = pt
UpdateProcessingTimeLock(p, pt) ==
    /\ UNCHANGED queryVars
    /\ pc[p] = "idle" /\ Budget
    /\ mu = "free"
    /\ mu' = p
    /\ parentState' = [parentState EXCEPT ![p].processing = pt]
    /\ pc' = [pc EXCEPT ![p] = "cs"]
    /\ Begin(p, "UpdateProcessingTime", pt)
    /\ UNCHANGED dsLog

\* the minimum, t.dataset.UpdateProcessingTime(min), and the deferred Unlock
UpdateProcessingTimeForward(p) ==
    /\ UNCHANGED queryVars
    /\ pc[p] = "cs" /\ call[p].op = "UpdateProcessingTime"
    /\ dsLog' = Deliver(dsLog, <<DsCall("UpdateProcessingTime",
                                         MinProcessing(parentState), p)>>)
    /\ mu' = "free"
    /\ pc' = [pc EXCEPT ![p] = "idle"]
    /\ Return(p, NoErr)
    /\ UNCHANGED parentState

\* ------------------------------------------------------------ Finish

\* t.mu.Lock(); t.parentState[id].finished = true
FinishLock(p, err) ==
    /\ UNCHANGED queryVars
    /\ pc[p] = "idle" /\ Budget
    /\ mu = "free"
    /\ mu' = p
    /\ parentState' = [parentState EXCEPT ![p].finished = TRUE]
    /\ pc' = [pc EXCEPT ![p] = "cs"]
    /\ Begin(p, "Finish", err)
    /\ UNCHANGED dsLog

\* Mutant of FinishForward: once the Dataset has been handed Finish(nil) the
\* records are made new.
FinishForwardResetsMap(p) ==
    /\ UNCHANGED queryVars
    /\ pc[p] = "cs" /\ call[p].op = "Finish"
    /\ LET errs == FinishCalls(parentState, call[p].arg)
       IN dsLog' = Deliver(dsLog, [i \in 1..Len(errs) |-> DsCall("Finish", errs[i], p)])
    /\ mu' = "free"
    /\ pc' = [pc EXCEPT ![p] = "done"]
    /\ Return(p, "void")
    /\ parentState' = IF AllFinished(parentState)
                      THEN [q \in Parents |-> parallelParentState]
                      ELSE parentState

\* the two `if`s of Finish with their calls of t.dataset.Finish, and the
\* deferred Unlock.  A parent makes no call after its Finish.
FinishForward(p) ==
    /\ UNCHANGED queryVars
    /\ pc[p] = "cs" /\ call[p].op = "Finish"
    /\ LET errs == FinishCalls(parentState, call[p].arg)
       IN dsLog' = Deliver(dsLog, [i \in 1..Len(errs) |-> DsCall("Finish", errs[i], p)])
    /\ mu' = "free"
    /\ pc' = [pc EXCEPT ![p] = "done"]
    /\ Return(p, "void")
    /\ UNCHANGED parentState

\* --------------------------------------------------- the specification

Next ==
    \/ \E p \in Parents, key \in Keys, res \in RetractResults : RetractTable(p, key, res)
    \/ \E p \in Parents, tbl \in Tables, ok \in BOOLEAN : ProcessCopy(p, tbl, ok)
    \/ \E p \in Parents : ProcessForward(p)
    \/ \E p \in Parents, mark \in Times : UpdateWatermarkLock(p, mark)
    \/ \E p \in Parents : UpdateWatermarkForward(p)
    \/ \E p \in Parents, pt \in Times : UpdateProcessingTimeLock(p, pt)
    \/ \E p \in Parents : UpdateProcessingTimeForward(p)
    \/ \E p \in Parents, err \in Errors \cup {NoErr} : FinishLock(p, err)
    \/ \E p \in Parents : FinishForward(p)

Spec == Init /\ [][Next]_vars

\* ------------------------------------------- Finish, waiting for the lock

\* Finish(id, err) is called and the goroutine is at t.mu.Lock().
FinishCall(p, err) ==
    /\ UNCHANGED queryVars
    /\ pc[p] = "idle" /\ Budget
    /\ pc' = [pc EXCEPT ![p] = "wait"]
    /\ Begin(p, "Finish", err)
    /\ UNCHANGED <<parentState, mu, dsLog>>

\* t.mu.Lock() returns; t.parentState[id].finished = true
FinishAcquire(p) ==
    /\ UNCHANGED queryVars
    /\ pc[p] = "wait" /\ call[p].op = "Finish"
    /\ mu = "free"
    /\ mu' = p
    /\ parentState' = [parentState EXCEPT ![p].finished = TRUE]
    /\ pc' = [pc EXCEPT ![p] = "cs"]
    /\ UNCHANGED <<received, call, dsLog>>

\* The parents' Finish calls, with the watermark and processing-time calls
\* that contend for the lock.
NextLive ==
    \/ \E p \in Parents, err \in Errors \cup {NoErr} : FinishCall(p, err)
    \/ \E p \in Parents : FinishAcquire(p)
    \/ \E p \in Parents : FinishForward(p)
    \/ \E p \in Parents, mark \in Times : UpdateWatermarkLock(p, mark)
    \/ \E p \in Parents : UpdateWatermarkForward(p)
    \/ \E p \in Parents, pt \in Times : UpdateProcessingTimeLock(p, pt)
    \/ \E p \in Parents : UpdateProcessingTimeForward(p)

\* A goroutine inside a critical section runs on to its end, and a goroutine
\* waiting at t.mu.Lock() gets the lock in the end though others take it in
\* between (sync.Mutex hands the lock to a waiter that has waited long).
Fairness ==
    \A p \in Parents :
        /\ SF_vars(FinishAcquire(p))
        /\ WF_vars(FinishForward(p))
        /\ WF_vars(UpdateWatermarkForward(p))
        /\ WF_vars(UpdateProcessingTimeForward(p))

SpecLive == Init /\ [][NextLive]_vars /\ Fairness

\* The query's context is cancelled: t.ctx.Done() is closed from now on.  No
\* method of the operator reads t.ctx.
Cancel ==
    /\ ~ctxDone
    /\ ctxDone' = TRUE
    /\ UNCHANGED <<opVars, planVars, execVars, allocVars, cmdVars>>

NextCancel ==
    \/ Next
    \/ Cancel

SpecCancel == Init /\ [][NextCancel]_vars

\* ------------------------------------------------ the attribute validator

\* A map with key k set to v (node.SetOutputAttr, node.SetRequiredAttr).
SetAttr(attrs, k, v) ==
    [x \in DOMAIN attrs \cup {k} |-> IF x = k THEN v ELSE attrs[x]]

\* The attributes set on the plan's nodes.
AttrCount ==
    LET n == Len(plan.nodes)
        RECURSIVE Sum(_)
        Sum(i) == IF i = 0 THEN 0
                  ELSE Cardinality(DOMAIN plan.nodes[i].required)
                       + Cardinality(DOMAIN plan.nodes[i].output) + Sum(i - 1)
    IN Sum(n)

\* The message of each of the three errors, in pieces.
\* Mutant of MissingError: the successor and the predecessor change places.
MissingErrorSwapped(k, succ, pred) ==
    <<"invalid physical query plan; attribute \"", k, "\" required by \"", pred,
      "\" is missing from predecessor \"", succ, "\"">>

MissingError(k, succ, pred) ==
    <<"invalid physical query plan; attribute \"", k, "\" required by \"", succ,
      "\" is missing from predecessor \"", pred, "\"">>

NotRequiredError(k, pred, succ) ==
    <<"invalid physical query plan; attribute \"", k, "\" on \"", pred,
      "\" must be required by all successors, but isn't on \"", succ, "\"">>

\* Mutant of MismatchError: a mismatch is reported as a missing attribute.
MismatchErrorAsMissing(k, succ, pred) ==
    <<"invalid physical query plan; attribute \"", k, "\" required by \"", succ,
      "\" is missing from predecessor \"", pred, "\"">>

MismatchError(k, succ, pred) ==
    <<"invalid physical query plan; attribute \"", k, "\" required by \"", succ,
      "\" does not match attribute in predecessor \"", pred, "\"">>

\* Mutant of SuccessorsMustRequire: no output attribute has to be required.
SuccessorsNeedNotRequire(k) == FALSE

\* Mutant of SuccessorsMustRequire: every output attribute has to be required.
SuccessorsMustRequireAll(k) == TRUE

\* Whether every successor of a node that outputs attribute k has to require
\* it: so for parallel-run, not for parallel-merge.
SuccessorsMustRequire(k) == k = ParallelRunKey

\* The errors ValidateAttributes finds in a plan, edge by edge.
Violations(pl) ==
    UNION { LET pred == pl.nodes[e[1]]
                succ == pl.nodes[e[2]]
            IN { MissingError(k, succ.id, pred.id) :
                    k \in DOMAIN succ.required \ DOMAIN pred.output }
               \cup
               { MismatchError(k, succ.id, pred.id) :
                    k \in {x \in DOMAIN succ.required \cap DOMAIN pred.output :
                              succ.required[x] # pred.output[x]} }
               \cup
               { NotRequiredError(k, pred.id, succ.id) :
                    k \in {x \in DOMAIN pred.output \ DOMAIN succ.required :
                              SuccessorsMustRequire(x)} }
          : e \in pl.edges }

\* The plans the validator is given: the nodes of the tests, one topology.
InitValidate ==
    /\ parentState = [q \in Parents |-> parallelParentState]
    /\ mu = "free"
    /\ pc = [q \in Parents |-> "idle"]
    /\ call = [q \in Parents |-> NoCall]
    /\ received = <<>>
    /\ dsLog = <<>>
    /\ plan \in {PlanSpec(edges) : edges \in Topologies}
    /\ validated = FALSE
    /\ verr = NilError
    /\ InitExecution

\* withRequiredAttr(name, attr) on node i
withRequiredAttr(i, k, f) ==
    /\ ~validated /\ AttrCount < MaxAttrs
    /\ k \notin DOMAIN plan.nodes[i].required
    /\ plan' = [plan EXCEPT !.nodes[i].required = SetAttr(@, k, f)]
    /\ UNCHANGED <<validated, verr, opVars, execVars, envVars, cmdVars>>

\* withOutputAttr(name, attr) on node i
withOutputAttr(i, k, f) ==
    /\ ~validated /\ AttrCount < MaxAttrs
    /\ k \notin DOMAIN plan.nodes[i].output
    /\ plan' = [plan EXCEPT !.nodes[i].output = SetAttr(@, k, f)]
    /\ UNCHANGED <<validated, verr, opVars, execVars, envVars, cmdVars>>

\* Mutant of AfterValidation: the plan is built whatever the validator said.
AfterValidationAlwaysBuilds(err) == "Building"

\* What follows plan.ValidateAttributes: with an error the run ends there
\* (t.Fatal, or the comparison with wantValidationErr and `return`), with
\* none it goes on to execute.NewExecutor and exe.Execute.
AfterValidation(err) == IF err = NilError THEN "Building" ELSE "Failed"

\* err := plan.ValidateAttributes(ps): nil if the plan has no violation, else
\* the error of one of them (the order in which the edges and the keys of the
\* attribute maps are visited is not fixed).
ValidateAttributes ==
    /\ ~validated
    /\ validated' = TRUE
    /\ IF Violations(plan) = {}
       THEN verr' = NilError
       ELSE verr' \in Violations(plan)
    /\ phase' = AfterValidation(verr')
    /\ terr' = verr'
    /\ UNCHANGED <<plan, opVars, built, nodeErr, finishLog, qerr, todo, cur, got, envVars, cmdVars>>

NextValidate ==
    \/ \E i \in 1..Len(NodeIDs), k \in AttrKeys, f \in Factors : withRequiredAttr(i, k, f)
    \/ \E i \in 1..Len(NodeIDs), k \in AttrKeys, f \in Factors : withOutputAttr(i, k, f)
    \/ ValidateAttributes

SpecValidate == InitValidate /\ [][NextValidate]_vars

\* ------------------------------------------------------- the executor

\* The nodes feeding node i, and the nodes of the plan that feed none: the
\* sinks, one result each.
Preds(i) == {e[1] : e \in {f \in plan.edges : f[2] = i}}
Sinks == {i \in 1..Len(plan.nodes) : \A e \in plan.edges : e[1] # i}

\* The parallel-run attribute a test sets on a node, or none.
RunAttrs == {NoAttrs} \cup {SetAttr(NoAttrs, ParallelRunKey, f) : f \in Factors}

\* The plans of the test cases: from-test outputs `out`, merge requires `req`
\* and outputs parallel-merge, filter has no attribute.
Fixture(edges, out, req) ==
    [PlanSpec(edges) EXCEPT !.nodes[1].output = out,
                            !.nodes[2].required = req,
                            !.nodes[2].output = SetAttr(NoAttrs, ParallelMergeKey, 2)]

\* One run of the loop over the test cases, at plantest.CreatePlanSpec.
InitExecute ==
    /\ parentState = [q \in Parents |-> parallelParentState]
    /\ mu = "free"
    /\ pc = [q \in Parents |-> "idle"]
    /\ call = [q \in Parents |-> NoCall]
    /\ received = <<>>
    /\ dsLog = <<>>
    /\ plan \in {Fixture(edges, out, req) :
                    edges \in Topologies, out \in RunAttrs, req \in RunAttrs}
    /\ validated = FALSE
    /\ verr = NilError
    /\ InitExecution

\* results, _, err := exe.Execute(ctx, ps, alloc): a Transformation and a
\* Dataset for every node, one result for every sink, and the sources
\* started; or an error and nothing to read.
Execute(ok) ==
    /\ phase = "Building"
    /\ IF ok
       THEN /\ built' = 1..Len(plan.nodes)
            /\ nodeErr' = [i \in 1..Len(plan.nodes) |-> "running"]
            /\ todo' = Sinks
            /\ phase' = "Running"
            /\ UNCHANGED terr
       ELSE /\ phase' = "Failed"
            /\ terr' = <<"ebuild">>
            /\ UNCHANGED <<built, nodeErr, todo>>
    /\ UNCHANGED <<finishLog, qerr, cur, got, planVars, opVars, envVars, cmdVars>>

\* What node i may finish its Dataset with: the error of a parent that
\* finished with one, at once; else an error of its own, or nil once every
\* parent has finished with nil.
MayFinishWith(i) ==
    LET perrs == {nodeErr[q] : q \in Preds(i)} \ {"running", NoErr}
    IN IF perrs # {} THEN perrs
       ELSE IF \A q \in Preds(i) : nodeErr[q] = NoErr THEN Errors \cup {NoErr}
       ELSE Errors

\* Mutant of Abort: a later error takes the place of the first.
AbortWithLatest(first, err) == IF err = NoErr THEN first ELSE <<err>>

\* The executor's error once a node has finished with err: the first error
\* it sees aborts the query and stays.
Abort(first, err) == IF first = NilError /\ err # NoErr THEN <<err>> ELSE first

\* Node i finishes its Dataset with err.  Nodes still running when the query
\* has failed are finished all the same.
NodeFinish(i, err) ==
    /\ phase \in {"Running", "Failed"}
    /\ i \in built /\ nodeErr[i] = "running"
    /\ err \in MayFinishWith(i)
    /\ nodeErr' = [nodeErr EXCEPT ![i] = err]
    /\ finishLog' = Append(finishLog, i)
    /\ qerr' = Abort(qerr, err)
    /\ UNCHANGED <<phase, terr, built, todo, cur, got, planVars, opVars, envVars, cmdVars>>

\* for name, r := range results: the next result, in no fixed order.
NextResult(s) ==
    /\ phase = "Running" /\ cur = 0
    /\ s \in todo
    /\ cur' = s
    /\ todo' = todo \ {s}
    /\ UNCHANGED <<phase, terr, built, nodeErr, finishLog, qerr, got, planVars, opVars, envVars, cmdVars>>

\* The callback of r.Tables().Do: one more table converted and appended.
YieldTable ==
    /\ phase = "Running" /\ cur # 0
    /\ nodeErr[cur] = "running"
    /\ got < MaxTables
    /\ got' = got + 1
    /\ UNCHANGED <<phase, terr, built, nodeErr, finishLog, qerr, todo, cur, planVars, opVars, envVars, cmdVars>>

\* Mutant of AfterResult: an error of a result does not fail the run.
AfterResultIgnoresError(err, rest) ==
    IF rest # {} THEN "Running" ELSE "Succeeded"

\* Where the loop over the results stands once r.Tables().Do has returned
\* err: `break` on an error, the next result if there is one, else done.
AfterResult(err, rest) ==
    IF err # NilError THEN "Failed"
    ELSE IF rest # {} THEN "Running" ELSE "Succeeded"

\* r.Tables().Do returns: once the sink has finished or the query has been
\* aborted, with the error of the abort if there was one.
TablesDone ==
    /\ phase = "Running" /\ cur # 0
    /\ nodeErr[cur] # "running" \/ qerr # NilError
    /\ phase' = AfterResult(qerr, todo)
    /\ terr' = qerr
    /\ cur' = 0
    /\ UNCHANGED <<built, nodeErr, finishLog, qerr, todo, got, planVars, opVars, envVars, cmdVars>>

NextExecute ==
    \/ ValidateAttributes
    \/ \E ok \in BOOLEAN : Execute(ok)
    \/ \E i \in 1..Len(NodeIDs), err \in Errors \cup {NoErr} : NodeFinish(i, err)
    \/ \E s \in 1..Len(NodeIDs) : NextResult(s)
    \/ YieldTable
    \/ TablesDone

SpecExecute == InitExecute /\ [][NextExecute]_vars

\* ------------------------------------------------------ the allocator

\* The allocator of one query, shared by its operators: each operator is a
\* goroutine that allocates and frees.  The counter is an atomic integer:
\* allocate loads it, gives up if the request would cross the quota, and
\* else swaps in the new count if the counter is still what it loaded, going
\* round again if it is not; free subtracts in one step.
InitAlloc ==
    /\ parentState = [q \in Parents |-> parallelParentState]
    /\ mu = "free"
    /\ pc = [q \in Parents |-> "idle"]
    /\ call = [q \in Parents |-> NoCall]
    /\ received = <<>>
    /\ dsLog = <<>>
    /\ plan = NoPlan
    /\ validated = FALSE
    /\ verr = NilError
    /\ phase = "Validating"
    /\ terr = NilError
    /\ built = {}
    /\ nodeErr = <<>>
    /\ finishLog = <<>>
    /\ qerr = NilError
    /\ todo = {}
    /\ cur = 0
    /\ got = 0
    /\ \E q \in 1..MaxQuota : InitAllocator(q)
    /\ ctxDone = FALSE
    /\ InitRun
    /\ InitInterpreter

\* An allocator call as it returned: `at` is the counter when the call took
\* effect, `after` the counter it left.
Outcome(op, o, n, ok, after) ==
    [op |-> op, by |-> o, n |-> n, ok |-> ok, at |-> allocated, after |-> after]

\* allocate(n) is called by operator o.
Allocate(o, n) ==
    /\ acall[o] = NoCall
    /\ acall' = [acall EXCEPT ![o] = [op |-> "allocate", n |-> n, pc |-> "load", seen |-> 0]]
    /\ UNCHANGED <<limit, allocated, held, alast, ctxDone, planVars, execVars, opVars, cmdVars>>

\* The load of the counter and the test against the quota: over the quota the
\* call fails and changes nothing.
AllocateLoad(o) ==
    /\ acall[o] # NoCall /\ acall[o].pc = "load"
    /\ IF allocated + acall[o].n > limit
       THEN /\ acall' = [acall EXCEPT ![o] = NoCall]
            /\ alast' = Outcome("allocate", o, acall[o].n, FALSE, allocated)
       ELSE /\ acall' = [acall EXCEPT ![o].pc = "cas", ![o].seen = allocated]
            /\ UNCHANGED alast
    /\ UNCHANGED <<limit, allocated, held, ctxDone, planVars, execVars, opVars, cmdVars>>

\* Mutant of Swaps: the new count is stored whatever the counter holds.
SwapsAlways(current, old) == TRUE

\* Whether a compare-and-swap of the counter from `old` takes place.
Swaps(current, old) == current = old

\* The compare-and-swap: the call succeeds if the counter is still the value
\* loaded, and loads again if another call changed it.
AllocateCAS(o) ==
    /\ acall[o] # NoCall /\ acall[o].pc = "cas"
    /\ IF Swaps(allocated, acall[o].seen)
       THEN /\ allocated' = acall[o].seen + acall[o].n
            /\ held' = [held EXCEPT ![o] = @ + acall[o].n]
            /\ acall' = [acall EXCEPT ![o] = NoCall]
            /\ alast' = Outcome("allocate", o, acall[o].n, TRUE, acall[o].seen + acall[o].n)
       ELSE /\ acall' = [acall EXCEPT ![o].pc = "load"]
            /\ UNCHANGED <<allocated, held, alast>>
    /\ UNCHANGED <<limit, ctxDone, planVars, execVars, opVars, cmdVars>>

\* free(n) by operator o, of bytes it holds: one atomic subtraction.
Free(o, n) ==
    /\ acall[o] = NoCall
    /\ n <= held[o]
    /\ allocated' = allocated - n
    /\ held' = [held EXCEPT ![o] = @ - n]
    /\ alast' = Outcome("free", o, n, TRUE, allocated - n)
    /\ UNCHANGED <<limit, acall, ctxDone, planVars, execVars, opVars, cmdVars>>

NextAlloc ==
    \/ \E o \in Operators, n \in Sizes : Allocate(o, n)
    \/ \E o \in Operators : AllocateLoad(o)
    \/ \E o \in Operators : AllocateCAS(o)
    \/ \E o \in Operators, n \in Sizes : Free(o, n)

SpecAlloc == InitAlloc /\ [][NextAlloc]_vars

\* ------------------------------------------- the parallel-from pipelines

\* The two tables of the test source, one on each partition: the group key
\* (_start, _stop) and the rows (_time, _value).
SourceKey == [p1 |-> "start=0,stop=5", p2 |-> "start=5,stop=10"]
SourceRows ==
    [p1 |-> << <<0, 1>>, <<1, 2>>, <<2, 3>>, <<3, 4>>, <<4, 5>> >>,
     p2 |-> << <<5, 5>>, <<6, 6>>, <<7, 7>>, <<8, 8>>, <<9, 9>> >>]

\* The table of partition p as the source hands it on: its rows in one
\* buffer, or in two cut after row k.
SourceTable(p, k) ==
    [key |-> SourceKey[p],
     bufs |-> IF k = Len(SourceRows[p]) THEN <<SourceRows[p]>>
              ELSE <<SubSeq(SourceRows[p], 1, k),
                     SubSeq(SourceRows[p], k + 1, Len(SourceRows[p]))>>]

\* (r) => r._value < 7.5, on a row (_time, _value).
FilterFn(r) == 2 * r[2] < 15

\* The filter's Process: the rows of each buffer that satisfy the function,
\* under the same group key.
FilterTable(tbl) ==
    [key |-> tbl.key,
     bufs |-> [i \in 1..Len(tbl.bufs) |-> SelectSeq(tbl.bufs[i], FilterFn)]]

\* The parallel-run and parallel-merge attributes with factor 2.
Run2 == SetAttr(NoAttrs, ParallelRunKey, 2)
Merge2 == SetAttr(NoAttrs, ParallelMergeKey, 2)

\* The plan of the test parallel-from: from-test, merge, filter, yield.
ParallelFrom ==
    [nodes |-> << [id |-> "from-test", required |-> NoAttrs, output |-> Run2],
                  [id |-> "merge", required |-> Run2, output |-> Merge2],
                  [id |-> "filter", required |-> NoAttrs, output |-> NoAttrs],
                  [id |-> "yield", required |-> NoAttrs, output |-> NoAttrs] >>,
     edges |-> {<<1, 2>>, <<2, 3>>, <<3, 4>>}]

\* The plan of the test parallel-from-filter: from-test, filter, merge, yield.
ParallelFromFilter ==
    [nodes |-> << [id |-> "from-test", required |-> NoAttrs, output |-> Run2],
                  [id |-> "filter", required |-> Run2, output |-> Run2],
                  [id |-> "merge", required |-> Run2, output |-> Merge2],
                  [id |-> "yield", required |-> NoAttrs, output |-> NoAttrs] >>,
     edges |-> {<<1, 2>>, <<2, 3>>, <<3, 4>>}]

\* Whether the plan's filter reads from its merge.
FilterAfterMerge ==
    \E e \in plan.edges :
        plan.nodes[e[1]].id = "merge" /\ plan.nodes[e[2]].id = "filter"

InitPipeline ==
    /\ parentState = [q \in Parents |-> parallelParentState]
    /\ mu = "free"
    /\ pc = [q \in Parents |-> "idle"]
    /\ call = [q \in Parents |-> NoCall]
    /\ received = <<>>
    /\ dsLog = <<>>
    /\ plan \in {ParallelFrom, ParallelFromFilter}
    /\ validated = FALSE
    /\ verr = NilError
    /\ InitExecution

\* Partition p of the source produces its table, which reaches the merge's
\* Process as it is or through the partition's filter, as the plan has it.
\* The allocator of the test has no limit, so the copy works.
PartitionProcess(p, k) ==
    /\ phase = "Running"
    /\ \A i \in 1..Len(received) : received[i].id # p
    /\ ProcessCopy(p, IF FilterAfterMerge THEN SourceTable(p, k)
                      ELSE FilterTable(SourceTable(p, k)), TRUE)

NextPipeline ==
    \/ ValidateAttributes
    \/ \E ok \in BOOLEAN : Execute(ok)
    \/ \E p \in Parents : \E k \in 1..Len(SourceRows[p]) : PartitionProcess(p, k)
    \/ \E p \in Parents : ProcessForward(p)

SpecPipeline == InitPipeline /\ [][NextPipeline]_vars

\* The tables the yield has received: those the merge's Dataset has been
\* handed, each through the filter if the filter follows the merge (a
\* Dataset calls its downstream Transformation inside its own Process).
Yielded ==
    LET sel == SelectSeq(dsLog, LAMBDA d : d.op = "Process")
    IN [i \in 1..Len(sel) |->
           IF FilterAfterMerge THEN FilterTable(sel[i].arg) ELSE sel[i].arg]

\* ------------------------------------------------ testExecutor.Run

\* json.Marshal, c.Compile and program.Start with the allocator: res is the
\* error of the first that fails, which Run returns, or nil and the query runs.
RunStart(res) ==
    /\ rpc = "start"
    /\ IF res = NoErr
       THEN /\ rpc' = "more"
            /\ UNCHANGED rret
       ELSE /\ rpc' = "returned"
            /\ rret' = res
    /\ UNCHANGED <<rn, rdone, output, released, rqe, rerr, rsize, lerrs>>
    /\ UNCHANGED <<opVars, planVars, execVars, envVars, itrpVars>>

\* for results.More(): with a result, results.Next() and its Tables().Do
\* begin; with none the loop is left.
ResultsMore(more) ==
    /\ rpc = "more"
    /\ IF more
       THEN /\ rn < MaxResults
            /\ rn' = rn + 1
            /\ rpc' = "tables"
       ELSE /\ rpc' = "drained"
            /\ UNCHANGED rn
    /\ UNCHANGED <<rdone, output, released, rqe, rerr, rsize, lerrs, rret>>
    /\ UNCHANGED <<opVars, planVars, execVars, envVars, itrpVars>>

\* The callback of Tables().Do: the table is written to `output`.
TableCallback ==
    /\ rpc = "tables"
    /\ output < MaxTables
    /\ output' = output + 1
    /\ UNCHANGED <<rpc, rn, rdone, released, rqe, rerr, rsize, lerrs, rret>>
    /\ UNCHANGED <<opVars, planVars, execVars, envVars, itrpVars>>

\* Mutant of TablesDo: an error of Tables().Do leaves the loop and Run goes
\* on to the release and the assertion.
TablesDoBreaks(err) ==
    /\ rpc = "tables"
    /\ IF err = NoErr
       THEN /\ rdone' = rdone + 1
            /\ rpc' = "more"
            /\ UNCHANGED rret
       ELSE /\ rpc' = "drained"
            /\ UNCHANGED <<rret, rdone>>
    /\ UNCHANGED <<rn, output, released, rqe, rerr, rsize, lerrs>>
    /\ UNCHANGED <<opVars, planVars, execVars, envVars, itrpVars>>

\* result.Tables().Do returns err: Run returns an error at once, and goes
\* round the loop on nil.
TablesDo(err) ==
    /\ rpc = "tables"
    /\ IF err = NoErr
       THEN /\ rdone' = rdone + 1
            /\ rpc' = "more"
            /\ UNCHANGED rret
       ELSE /\ rpc' = "returned"
            /\ rret' = err
            /\ UNCHANGED rdone
    /\ UNCHANGED <<rn, output, released, rqe, rerr, rsize, lerrs>>
    /\ UNCHANGED <<opVars, planVars, execVars, envVars, itrpVars>>

\* results.Release()
ResultsRelease ==
    /\ rpc = "drained"
    /\ released' = TRUE
    /\ rpc' = "released"
    /\ UNCHANGED <<rn, rdone, output, rqe, rerr, rsize, lerrs, rret>>
    /\ UNCHANGED <<opVars, planVars, execVars, envVars, itrpVars>>

\* err = results.Err(), and the error for unexpected output if that is nil
\* and `output` is not empty.
ResultsErr(qe) ==
    /\ rpc = "released"
    /\ rqe' = qe
    /\ rerr' = IF qe = NoErr /\ output > 0 THEN OutputError ELSE qe
    /\ rpc' = "check"
    /\ UNCHANGED <<rn, rdone, output, released, rsize, lerrs, rret>>
    /\ UNCHANGED <<opVars, planVars, execVars, envVars, itrpVars>>

\* The calls of logger.Errorf that mem.AssertSize(&logger, 0) makes: one for
\* each allocation still held and one if the size is not 0.
AssertErrs ==
    Cardinality({o \in Operators : held[o] > 0}) + (IF allocated # 0 THEN 1 ELSE 0)

\* mem.AssertSize(&logger, 0); if logger.errs > 0 { err = "Memory leak
\* detected" }
AssertSize ==
    /\ rpc = "check"
    /\ rsize' = allocated
    /\ lerrs' = lerrs + AssertErrs
    /\ rerr' = IF lerrs' > 0 THEN LeakError ELSE rerr
    /\ rpc' = "asserted"
    /\ UNCHANGED <<rn, rdone, output, released, rqe, rret>>
    /\ UNCHANGED <<opVars, planVars, execVars, envVars, itrpVars>>

\* return err
RunReturn ==
    /\ rpc = "asserted"
    /\ rret' = rerr
    /\ rpc' = "returned"
    /\ UNCHANGED <<rn, rdone, output, released, rqe, rerr, rsize, lerrs>>
    /\ UNCHANGED <<opVars, planVars, execVars, envVars, itrpVars>>

\* The query started by program.Start is running: its operators allocate
\* from `alloc` and free while Run reads the results.
Producing == rpc \in {"more", "tables"}

NextRun ==
    \/ \E res \in StartErrors \cup {NoErr} : RunStart(res)
    \/ \E more \in BOOLEAN : ResultsMore(more)
    \/ TableCallback
    \/ \E err \in Errors \cup {NoErr} : TablesDo(err)
    \/ ResultsRelease
    \/ \E qe \in Errors \cup {NoErr} : ResultsErr(qe)
    \/ AssertSize
    \/ RunReturn
    \/ \E o \in Operators, n \in Sizes : Producing /\ Allocate(o, n)
    \/ \E o \in Operators : Producing /\ AllocateLoad(o)
    \/ \E o \in Operators : Producing /\ AllocateCAS(o)
    \/ \E o \in Operators, n \in Sizes : Producing /\ Free(o, n)

SpecRun == Init /\ [][NextRun]_vars

\* ------------------------------------------------ Interpreter.Synthesis

\* PackageMain, and the names doPackageClause may leave in itrp.pkgName.
PackageMain == "main"
PkgNames == {PackageMain, "lib"}

\* The values of expressions and side effects.
Values == {"v1", "v2"}

\* The statements of a file body: the type switched on in synStatement,
\* whether the do... call made for it succeeds, and the value it yields.
Stmt(kind, ok) == [kind |-> kind, ok |-> ok, v |-> "v1"]
Stmts ==
    { Stmt("ExpressionStatement", TRUE), Stmt("ExpressionStatement", FALSE),
      Stmt("OptionStatement", TRUE), Stmt("NativeVariableAssignment", FALSE),
      Stmt("ReturnStatement", TRUE), Stmt("BuiltinStatement", TRUE),
      Stmt("Block", TRUE) }

\* The sequences over S of length n at most.
RECURSIVE SeqsUpTo(_, _)
SeqsUpTo(S, n) ==
    IF n = 0 THEN {<<>>}
    ELSE LET shorter == SeqsUpTo(S, n - 1)
         IN shorter \cup {Append(q, x) : q \in shorter, x \in S}

\* A file: what doPackageClause does with its package clause (the name it
\* leaves in itrp.pkgName, or "err" if it fails), whether each import can be
\* imported, and its body.
File(clause, imports, body) == [clause |-> clause, imports |-> imports, body |-> body]
Files ==
    {File(c, i, b) : c \in PkgNames \cup {"err"},
                     i \in {<<>>, <<TRUE>>, <<TRUE, FALSE>>},
                     b \in SeqsUpTo(Stmts, MaxBody)}

\* The files of the packages tried: no imports, one statement at most.
PkgFiles ==
    {File(c, <<>>, b) : c \in PkgNames \cup {"err"}, b \in SeqsUpTo(Stmts, 1)}

\* The root nodes handed to Synthesis: a file, a package of up to two files,
\* and a node of another type.
Nodes ==
    {[type |-> "File", files |-> <<f>>] : f \in Files}
    \cup {[type |-> "Package", files |-> fs] : fs \in SeqsUpTo(PkgFiles, 2)}
    \cup {[type |-> "FunctionExpression", files |-> <<>>]}

\* The side effects handed to SynthesisTo.
SideEffects == {[node |-> Stmt("ExpressionStatement", TRUE), value |-> v] : v \in Values}

\* An instruction; the arguments of IN_APPEND_SIDE_EFFECT are the node, with
\* the package name the interpreter had when it was emitted.
OpCode(in, args) == [in |-> in, args |-> args]

\* itrp.appendCode(in, args) on the interpreter it: one more instruction at
\* the end of it.code.
appendCode(it, in, args) == [it EXCEPT !.code = Append(@, OpCode(in, args))]

\* The interpreter it with the error err of the call under way.
Failed(it, err) == [it EXCEPT !.err = err]

\* Mutant of synStatement: an expression statement emits its side effect
\* in every package.
synStatementAnyPackage(it, stmt) ==
    CASE stmt.kind \in {"OptionStatement", "TestStatement", "NativeVariableAssignment",
                        "MemberAssignment", "ReturnStatement"} ->
            IF stmt.ok THEN it ELSE Failed(it, "statement error")
      [] stmt.kind = "BuiltinStatement" -> it
      [] stmt.kind = "ExpressionStatement" ->
            IF ~stmt.ok THEN Failed(it, "statement error")
            ELSE appendCode(appendCode(it, "IN_LOAD_VALUE", stmt.v),
                            "IN_APPEND_SIDE_EFFECT",
                            [node |-> stmt, pkg |-> it.pkgName])
      [] OTHER -> Failed(it, "unsupported statement type")

\* synStatement: the switch on the statement's type.  Only an expression
\* statement in package main appends code: the value, then the side effect.
synStatement(it, stmt) ==
    CASE stmt.kind \in {"OptionStatement", "TestStatement", "NativeVariableAssignment",
                        "MemberAssignment", "ReturnStatement"} ->
            IF stmt.ok THEN it ELSE Failed(it, "statement error")
      [] stmt.kind = "BuiltinStatement" -> it
      [] stmt.kind = "ExpressionStatement" ->
            IF ~stmt.ok THEN Failed(it, "statement error")
            ELSE IF it.pkgName = PackageMain
            THEN appendCode(appendCode(it, "IN_LOAD_VALUE", stmt.v),
                            "IN_APPEND_SIDE_EFFECT",
                            [node |-> stmt, pkg |-> it.pkgName])
            ELSE it
      [] OTHER -> Failed(it, "unsupported statement type")

\* synFile's loop over file.Body, left at the first error.
RECURSIVE synBody(_, _)
synBody(it, body) ==
    IF body = <<>> THEN it
    ELSE LET r == synStatement(it, Head(body))
         IN IF r.err # NoErr THEN r ELSE synBody(r, Tail(body))

\* synFile's loop over file.Imports with synImport, left at the first error.
RECURSIVE synImports(_, _)
synImports(it, imports) ==
    IF imports = <<>> THEN it
    ELSE IF ~Head(imports) THEN Failed(it, "import error")
    ELSE synImports(it, Tail(imports))

\* itrp.doPackageClause(file.Package): it fails, or leaves a package name.
doPackageClause(it, clause) ==
    IF clause = "err" THEN Failed(it, "package clause error")
    ELSE [it EXCEPT !.pkgName = clause]

\* synFile: the package clause, the imports, the body.
synFile(it, file) ==
    LET r1 == doPackageClause(it, file.clause)
    IN IF r1.err # NoErr THEN r1
       ELSE LET r2 == synImports(r1, file.imports)
            IN IF r2.err # NoErr THEN r2 ELSE synBody(r2, file.body)

\* synPackage: synFile for each file, left at the first error.
RECURSIVE synPackage(_, _)
synPackage(it, files) ==
    IF files = <<>> THEN it
    ELSE LET r == synFile(it, Head(files))
         IN IF r.err # NoErr THEN r ELSE synPackage(r, Tail(files))

\* synRoot: the switch on the root node's type.
synRoot(it, node) ==
    CASE node.type = "Package" -> synPackage(it, node.files)
      [] node.type = "File" -> synFile(it, node.files[1])
      [] OTHER -> Failed(it, "unsupported root node")

\* A call as it returned: the code it appended is code[from + 1 .. to].
SynCall(op, to, ret) == [op |-> op, from |-> Len(code), to |-> to, ret |-> ret]

\* Synthesis(ctx, node, scope, importer)
Synthesis(node) ==
    /\ Len(ilog) < MaxSynth
    /\ LET it0 == appendCode([code |-> code, pkgName |-> pkgName, err |-> NoErr],
                             "IN_CONS_SIDE_EFFECTS", 0)
           r == synRoot(it0, node)
           end == IF r.err # NoErr THEN r ELSE appendCode(r, "IN_PROGRAM_START", 0)
       IN /\ code' = end.code
          /\ pkgName' = end.pkgName
          /\ ilog' = Append(ilog, SynCall("Synthesis", Len(end.code), end.err))
    /\ UNCHANGED <<opVars, planVars, execVars, envVars, runVars>>

\* SynthesisTo(ctx, sideEffect)
SynthesisTo(sideEffect) ==
    /\ Len(ilog) < MaxSynth
    /\ LET it0 == [code |-> code, pkgName |-> pkgName, err |-> NoErr]
           it1 == appendCode(it0, "IN_CONS_SIDE_EFFECTS", 0)
           it2 == appendCode(it1, "IN_LOAD_VALUE", sideEffect.value)
           it3 == appendCode(it2, "IN_APPEND_SIDE_EFFECT",
                             [node |-> sideEffect.node, pkg |-> pkgName])
           end == appendCode(it3, "IN_PROGRAM_START", 0)
       IN /\ code' = end.code
          /\ ilog' = Append(ilog, SynCall("SynthesisTo", Len(end.code), NoErr))
    /\ UNCHANGED pkgName
    /\ UNCHANGED <<opVars, planVars, execVars, envVars, runVars>>

NextSynthesis ==
    \/ \E node \in Nodes : Synthesis(node)
    \/ \E sideEffect \in SideEffects : SynthesisTo(sideEffect)

SpecSynthesis == Init /\ [][NextSynthesis]_vars

\* ============================================================== claims

\* The positions of the log at which `op` was called on the Dataset.
DsAt(op) == {i \in 1..Len(dsLog) : dsLog[i].op = op}

\* The arguments handed to the Dataset's `op`, in order.
DsArgs(op) ==
    LET sel == SelectSeq(dsLog, LAMBDA d : d.op = op)
    IN [i \in 1..Len(sel) |-> sel[i].arg]

\* The calls of `op` by parent q among the first n calls received.
CallsUpTo(op, q, n) ==
    {i \in 1..n : received[i].op = op /\ received[i].id = q}

Greatest(S) == CHOOSE m \in S : \A x \in S : x <= m
Least(S) == CHOOSE m \in S : \A x \in S : m <= x

\* The latest value parent q supplied to `op` among the first n calls.
LatestUpTo(op, q, n) == received[Greatest(CallsUpTo(op, q, n))].arg

\* The parents that have called `op` among the first n calls.
SuppliedUpTo(op, n) == {q \in Parents : CallsUpTo(op, q, n) # {}}

\* The values parent q supplied to `op`, in order.
SuppliedSeq(op, q) ==
    LET sel == SelectSeq(received, LAMBDA e : e.op = op /\ e.id = q)
    IN [i \in 1..Len(sel) |-> sel[i].arg]

NonDecreasing(seq) == \A i \in 1..Len(seq) : \A j \in i..Len(seq) : seq[i] <= seq[j]

\* ------------------------------------------------------------------ C1

\* C1 as stated: every watermark handed to the Dataset is the least of the
\* latest marks of the parents that have supplied one; a parent that has
\* not called UpdateWatermark contributes nothing.
C1_OnlySuppliedParents ==
    \A i \in DsAt("UpdateWatermark") :
        dsLog[i].arg =
            Least({LatestUpTo("UpdateWatermark", q, dsLog[i].n) :
                      q \in SuppliedUpTo("UpdateWatermark", dsLog[i].n)})

\* C1 amended: every watermark handed to the Dataset is the least, over all
\* the parents registered at construction, of the parent's latest mark, a
\* parent that has not called UpdateWatermark counting as 0.
C1_MinOverAllParents ==
    \A i \in DsAt("UpdateWatermark") :
        dsLog[i].arg =
            Least({IF q \in SuppliedUpTo("UpdateWatermark", dsLog[i].n)
                   THEN LatestUpTo("UpdateWatermark", q, dsLog[i].n)
                   ELSE 0 : q \in Parents})

\* C1 witness: a watermark was forwarded while a parent had supplied none,
\* and another after every parent had supplied one, the marks differing.
C1_Witness ==
    /\ \E i \in DsAt("UpdateWatermark") :
          SuppliedUpTo("UpdateWatermark", dsLog[i].n) # Parents
    /\ \E i \in DsAt("UpdateWatermark") :
          /\ SuppliedUpTo("UpdateWatermark", dsLog[i].n) = Parents
          /\ \E q, r \in Parents :
                LatestUpTo("UpdateWatermark", q, dsLog[i].n)
                    < LatestUpTo("UpdateWatermark", r, dsLog[i].n)

\* ------------------------------------------------------------------ C2

\* C2 as stated: the watermarks handed to the Dataset never go down, nor do
\* the processing times, whatever the parents supply.
C2_AlwaysNonDecreasing ==
    /\ NonDecreasing(DsArgs("UpdateWatermark"))
    /\ NonDecreasing(DsArgs("UpdateProcessingTime"))

\* Parent q never supplies to `op` a value below the one before, its record
\* starting at 0.
ParentNonDecreasing(op, q) == NonDecreasing(<<0>> \o SuppliedSeq(op, q))

\* C2 amended: if no parent supplies a watermark below its previous one (0 at
\* first), the watermarks handed to the Dataset never go down; likewise for
\* the processing times.
C2_NonDecreasingInputs ==
    /\ (\A q \in Parents : ParentNonDecreasing("UpdateWatermark", q))
          => NonDecreasing(DsArgs("UpdateWatermark"))
    /\ (\A q \in Parents : ParentNonDecreasing("UpdateProcessingTime", q))
          => NonDecreasing(DsArgs("UpdateProcessingTime"))

\* C2 witness: the parents raised their watermarks and the Dataset saw the
\* watermark rise; a processing time was forwarded too.
C2_Witness ==
    /\ \A q \in Parents : ParentNonDecreasing("UpdateWatermark", q)
    /\ \A q \in Parents : ParentNonDecreasing("UpdateProcessingTime", q)
    /\ Len(DsArgs("UpdateWatermark")) >= 2
    /\ DsArgs("UpdateWatermark")[1] < DsArgs("UpdateWatermark")[2]
    /\ Len(DsArgs("UpdateProcessingTime")) >= 1

\* ------------------------------------------------------------------ C3

\* C3: the Dataset is handed Finish(nil) only after every parent has called
\* Finish(id, nil), and whenever it has been handed Finish(nil) every
\* parent's finished flag is set.
C3_FinishNilOnlyAfterAllNil ==
    \A i \in DsAt("Finish") :
        dsLog[i].arg = NoErr =>
            /\ \A q \in Parents :
                  \E k \in CallsUpTo("Finish", q, dsLog[i].n) : received[k].arg = NoErr
            /\ \A q \in Parents : parentState[q].finished

\* ------------------------------------------------------------------ C4

\* C4: every Finish(id, err) with a non-nil err that has returned handed
\* exactly err to the Dataset's Finish, first thing in that call, whatever
\* the other parents' finished flags.
C4_ErrorForwardedAtOnce ==
    \A k \in 1..Len(received) :
        (received[k].op = "Finish" /\ received[k].arg # NoErr
            /\ received[k].ret # "pending") =>
            LET mine == {i \in 1..Len(dsLog) : dsLog[i].n = k}
            IN /\ mine # {}
               /\ dsLog[Least(mine)].op = "Finish"
               /\ dsLog[Least(mine)].arg = received[k].arg
               /\ \A i \in mine : dsLog[i].arg \in {received[k].arg, NoErr}

\* C4 witness: a Finish with an error has returned while another parent has
\* not finished.
C4_Witness ==
    \E k \in 1..Len(received) :
        /\ received[k].op = "Finish" /\ received[k].arg # NoErr
        /\ received[k].ret # "pending"
        /\ \E q \in Parents : ~parentState[q].finished

\* ------------------------------------------------------------------ C5

\* C5: once a parent's Finish has handed an error to the Dataset, no Process
\* call that another parent makes afterwards reaches the Dataset.
C5_NoTableAfterError ==
    \A i \in DsAt("Finish") : \A j \in DsAt("Process") :
        ~ /\ dsLog[i].arg # NoErr
          /\ i < j
          /\ dsLog[i].n < dsLog[j].n
          /\ dsLog[i].n \notin received[dsLog[j].n].open
          /\ dsLog[i].from # dsLog[j].from

\* ------------------------------------------------------------------ C6

\* C6: every Process(id, tbl) that has returned nil handed exactly one table
\* to the Dataset, with tbl's group key and tbl's rows in tbl's order.
C6_ProcessIsIdentity ==
    \A k \in 1..Len(received) :
        (received[k].op = "Process" /\ received[k].ret = NoErr) =>
            LET mine == {i \in 1..Len(dsLog) : dsLog[i].n = k}
            IN /\ Cardinality(mine) = 1
               /\ \A i \in mine :
                     /\ dsLog[i].op = "Process"
                     /\ dsLog[i].from = received[k].id
                     /\ dsLog[i].arg.key = received[k].arg.key
                     /\ Len(dsLog[i].arg.bufs) = Len(received[k].arg.bufs)
                     /\ Rows(dsLog[i].arg.bufs) = Rows(received[k].arg.bufs)

\* C6 witness: a table of two buffers has been processed by each parent.
C6_Witness ==
    \A q \in Parents :
        \E k \in 1..Len(received) :
            /\ received[k].op = "Process" /\ received[k].ret = NoErr
            /\ received[k].id = q
            /\ Len(received[k].arg.bufs) = 2

\* ------------------------------------------------------------------ C7

\* Call a had returned when call b began.
Before(a, b) == a < b /\ a \notin received[b].open

\* C7: two tables of one group key reach the Dataset in the order upstream
\* produced them: if the Process call of the one had returned before the
\* Process call of the other began (always so for two calls of one parent),
\* the Dataset receives the one first.  Calls that overlap are concurrent
\* upstream and have no order to keep.
C7_OrderPerKey ==
    \A i, j \in DsAt("Process") :
        (dsLog[i].arg.key = dsLog[j].arg.key /\ Before(dsLog[i].n, dsLog[j].n))
            => i < j

\* C7 witness: one parent's two tables of one key have reached the Dataset
\* with a table of the other parent, whose call overlapped, between them.
C7_Witness ==
    \E i, j, m \in DsAt("Process") :
        /\ i < m /\ m < j
        /\ dsLog[i].from = dsLog[j].from /\ dsLog[m].from # dsLog[i].from
        /\ dsLog[i].arg.key = dsLog[j].arg.key /\ dsLog[m].arg.key = dsLog[i].arg.key
        /\ dsLog[m].n < dsLog[i].n

\* ----------------------------------------------------- C8, C9, C10

IdOf(i) == plan.nodes[i].id
Req(i) == plan.nodes[i].required
Out(i) == plan.nodes[i].output

\* The edges and keys where the successor requires what the predecessor
\* does not output; where both have the key with different values; where the
\* predecessor outputs what the successor does not require.
MissingAt == {<<e, k>> \in plan.edges \X AttrKeys :
                 k \in DOMAIN Req(e[2]) /\ k \notin DOMAIN Out(e[1])}
MismatchAt == {<<e, k>> \in plan.edges \X AttrKeys :
                  /\ k \in DOMAIN Req(e[2]) /\ k \in DOMAIN Out(e[1])
                  /\ Req(e[2])[k] # Out(e[1])[k]}
NotRequiredAt == {<<e, k>> \in plan.edges \X AttrKeys :
                     k \in DOMAIN Out(e[1]) /\ k \notin DOMAIN Req(e[2])}
RunNotRequiredAt == {x \in NotRequiredAt : x[2] = "parallel-run"}

MissingText(x) ==
    <<"invalid physical query plan; attribute \"", x[2], "\" required by \"",
      IdOf(x[1][2]), "\" is missing from predecessor \"", IdOf(x[1][1]), "\"">>
NotRequiredText(x) ==
    <<"invalid physical query plan; attribute \"", x[2], "\" on \"", IdOf(x[1][1]),
      "\" must be required by all successors, but isn't on \"", IdOf(x[1][2]), "\"">>
MismatchText(x) ==
    <<"invalid physical query plan; attribute \"", x[2], "\" required by \"",
      IdOf(x[1][2]), "\" does not match attribute in predecessor \"",
      IdOf(x[1][1]), "\"">>

\* x is the only thing wrong with the plan.
OnlyViolation(x) == MissingAt \cup MismatchAt \cup RunNotRequiredAt = {x}

\* C8 as stated: for every edge whose successor requires a key the
\* predecessor does not output, ValidateAttributes returns the 'missing from
\* predecessor' error naming that key, successor and predecessor.
C8_MissingErrorForEveryEdge ==
    validated => \A x \in MissingAt : verr = MissingText(x)

\* C8 amended: for every such edge ValidateAttributes returns an error, and
\* when that edge and key are all that is wrong with the plan the error is
\* the 'missing from predecessor' one naming that key, successor and
\* predecessor.
C8_MissingErrorWhenOnly ==
    validated => \A x \in MissingAt :
        /\ verr # NilError
        /\ OnlyViolation(x) => verr = MissingText(x)

\* C8 witness: the plan of from-missing-output, validated: filter requires
\* parallel-run, its predecessor from-test outputs nothing.
C8_Witness ==
    /\ validated
    /\ \E x \in MissingAt :
          /\ OnlyViolation(x) /\ verr = MissingText(x)
          /\ x[2] = "parallel-run" /\ IdOf(x[1][1]) = "from-test"
          /\ IdOf(x[1][2]) = "filter"

\* C9 as stated, in what it says of every plan: for every edge and every key
\* the predecessor outputs and the successor does not require,
\* ValidateAttributes returns an error; a plan passes only if every output
\* attribute of every predecessor is required by all its successors.
C9_EveryOutputRequired ==
    validated =>
        /\ \A x \in NotRequiredAt : verr # NilError
        /\ verr = NilError => NotRequiredAt = {}

\* C9 amended: the rule holds for the parallel-run key, not for
\* parallel-merge: for every edge whose predecessor outputs parallel-run and
\* whose successor does not require it ValidateAttributes returns an error,
\* the 'must be required by all successors' one when nothing else is wrong;
\* a plan passes only if every parallel-run output is required by all
\* successors.
C9_RunOutputRequired ==
    validated =>
        /\ \A x \in RunNotRequiredAt :
              /\ verr # NilError
              /\ OnlyViolation(x) => verr = NotRequiredText(x)
        /\ verr = NilError => RunNotRequiredAt = {}

\* C9 witness: the plan of from-missing-required, validated: from-test
\* outputs parallel-run, its successor filter does not require it.
C9_Witness ==
    /\ validated
    /\ \E x \in RunNotRequiredAt :
          /\ OnlyViolation(x) /\ verr = NotRequiredText(x)
          /\ IdOf(x[1][1]) = "from-test" /\ IdOf(x[1][2]) = "filter"

\* The 'does not match' message is unlike the other two, whatever edge and
\* key of the plan they name.
ShapesDistinct ==
    \A a, b \in plan.edges \X AttrKeys :
        /\ MismatchText(a) # MissingText(b)
        /\ MismatchText(a) # NotRequiredText(b)

\* C10 as stated: for every edge whose successor requires a key that the
\* predecessor outputs with another value, ValidateAttributes returns the
\* 'does not match attribute in predecessor' error naming them, a message
\* unlike the other two.
C10_MismatchErrorForEveryEdge ==
    validated =>
        /\ \A x \in MismatchAt : verr = MismatchText(x)
        /\ ShapesDistinct

\* C10 amended: for every such edge ValidateAttributes returns an error, and
\* when that edge and key are all that is wrong with the plan the error is
\* the 'does not match attribute in predecessor' one naming them, a message
\* unlike the other two.
C10_MismatchErrorWhenOnly ==
    validated =>
        /\ \A x \in MismatchAt :
              /\ verr # NilError
              /\ OnlyViolation(x) => verr = MismatchText(x)
        /\ ShapesDistinct

\* C10 witness: the plan of from-factor-mismatch, validated: from-test
\* outputs parallel-run with factor 2, filter requires it with factor 1.
C10_Witness ==
    /\ validated
    /\ \E x \in MismatchAt :
          /\ OnlyViolation(x) /\ verr = MismatchText(x)
          /\ IdOf(x[1][1]) = "from-test" /\ IdOf(x[1][2]) = "filter"
          /\ Out(x[1][1])[x[2]] = 2 /\ Req(x[1][2])[x[2]] = 1

\* ------------------------------------------------------------------ C11

\* The edges and keys where the successor requires what the predecessor
\* outputs, with the same value.
MatchedAt == {<<e, k>> \in plan.edges \X AttrKeys :
                 /\ k \in DOMAIN Req(e[2]) /\ k \in DOMAIN Out(e[1])
                 /\ Req(e[2])[k] = Out(e[1])[k]}

\* The node at the head of edge e has no other predecessor.
OnlyPredecessor(e) == \A f \in plan.edges : f[2] = e[2] => f = e

\* Nothing is wrong with the plan.
NoViolation == MissingAt \cup MismatchAt \cup RunNotRequiredAt = {}

\* C11 as stated: in every plan that has a successor requiring a key with the
\* value its only predecessor outputs for it, ValidateAttributes returns nil.
C11_MatchedPairSucceeds ==
    validated =>
        \A x \in MatchedAt : OnlyPredecessor(x[1]) => verr = NilError

\* C11 amended: in every plan that has such a successor and in which no other
\* edge or key breaks a rule, ValidateAttributes returns nil; and whatever
\* else is wrong with the plan, the error returned is not about the matched
\* edge and key.
C11_MatchedPlanSucceeds ==
    validated =>
        \A x \in MatchedAt : OnlyPredecessor(x[1]) =>
            /\ NoViolation => verr = NilError
            /\ verr \notin {MissingText(x), MismatchText(x), NotRequiredText(x)}

\* C11 witness: the plan of parallel-from, validated with no error: merge
\* requires parallel-run with factor 2, which its only predecessor from-test
\* outputs, and outputs parallel-merge, which filter does not require.
C11_Witness ==
    /\ validated /\ verr = NilError
    /\ \E x \in MatchedAt :
          /\ OnlyPredecessor(x[1]) /\ x[2] = "parallel-run"
          /\ IdOf(x[1][1]) = "from-test" /\ IdOf(x[1][2]) = "merge"
          /\ Out(x[1][1])[x[2]] = 2
    /\ \E y \in NotRequiredAt : y[2] = "parallel-merge" /\ IdOf(y[1][1]) = "merge"

\* ------------------------------------------------------------------ C12

\* C12: nothing is built and no table is received before the validator has
\* returned; and a plan the validator rejects has moved the query from
\* Validating straight to Failed with the validator's error, with no
\* Transformation or Dataset built, no node run and no table received, then
\* and ever after.
C12_RejectedPlanNeverRuns ==
    /\ ~validated =>
          phase = "Validating" /\ built = {} /\ nodeErr = <<>> /\ got = 0
    /\ (validated /\ verr # NilError) =>
          /\ phase = "Failed" /\ terr = verr
          /\ built = {} /\ nodeErr = <<>> /\ todo = {} /\ cur = 0 /\ got = 0

\* C12 witness: the plan of from-factor-mismatch has been rejected and the
\* query has failed with nothing built.
C12_Witness ==
    /\ validated /\ verr # NilError
    /\ phase = "Failed" /\ built = {}
    /\ \E x \in MismatchAt : verr = MismatchText(x)

\* ------------------------------------------------------------------ C13

\* The bytes the operators hold, all together.
RECURSIVE HeldBy(_)
HeldBy(S) ==
    IF S = {} THEN 0
    ELSE LET o == CHOOSE x \in S : TRUE IN held[o] + HeldBy(S \ {o})

\* C13: with quota `limit`, however the operators' allocate and free calls
\* interleave: the call that returned last, if an allocate(n), failed exactly
\* if the counter plus n was over the quota when it took effect, left the
\* counter alone if it failed and raised it by n if not; the counter is the
\* sum of what the operators hold (what was allocated and not freed); and it
\* is never over the quota.
C13_QuotaEnforced ==
    /\ allocated <= limit
    /\ allocated = HeldBy(Operators)
    /\ (alast # NoCall /\ alast.op = "allocate") =>
          /\ alast.ok <=> alast.at + alast.n <= limit
          /\ alast.after = IF alast.ok THEN alast.at + alast.n ELSE alast.at

\* C13 witness: an allocate has just failed for want of one byte while both
\* operators hold memory, and the counter is what it was.
C13_Witness ==
    /\ alast # NoCall /\ alast.op = "allocate" /\ ~alast.ok
    /\ alast.at + alast.n = limit + 1
    /\ \A o \in Operators : held[o] > 0
    /\ allocated = alast.at

\* ------------------------------------------------------------------ C14

\* The steps of a query's state machine.
PhaseSteps ==
    { <<"Validating", "Building">>, <<"Validating", "Failed">>,
      <<"Building", "Running">>, <<"Building", "Failed">>,
      <<"Running", "Succeeded">>, <<"Running", "Failed">> }

\* The nodes that finished with an error, and the first of them to finish.
FailedNodes == {i \in built : nodeErr[i] \notin {"running", NoErr}}
FirstFailed ==
    finishLog[Least({k \in 1..Len(finishLog) : finishLog[k] \in FailedNodes})]

\* What holds of every state of an execution: it has succeeded only if every
\* result has been read and every sink, and every node, has finished with no
\* error, and then the caller's error is nil; it has not succeeded if a node
\* has finished with an error; if it has failed the caller has an error, and
\* if it failed while running that is the error of the first node that
\* finished with one.
C14_Terminal ==
    /\ phase = "Succeeded" =>
          /\ todo = {} /\ cur = 0 /\ terr = NilError
          /\ \A s \in Sinks : nodeErr[s] = NoErr
          /\ FailedNodes = {}
    /\ FailedNodes # {} => phase # "Succeeded"
    /\ phase = "Failed" => terr # NilError
    /\ (phase = "Failed" /\ built # {}) =>
          FailedNodes # {} /\ terr = <<nodeErr[FirstFailed]>>

C14_WitnessSucceeded ==
    /\ phase = "Succeeded" /\ Cardinality(Sinks) = 2 /\ got > 0

\* ------------------------------------------------------------------ C15

\* C15, for the partition-merge operator: no Process call that began after
\* the context was cancelled has returned nil (it returns an error, the
\* cancellation's), and none has handed a table to the Dataset.
C15_CancelledProcessForwardsNothing ==
    \A k \in 1..Len(received) :
        (received[k].op = "Process" /\ received[k].cancelled) =>
            /\ received[k].ret # NoErr
            /\ \A i \in 1..Len(dsLog) : dsLog[i].n # k

\* ------------------------------------------------------------------ C16

\* `want` of both tests: 5 rows of group 0 and 3 rows of group 1.
Want ==
    { [key |-> "start=0,stop=5",
       rows |-> << <<0, 1>>, <<1, 2>>, <<2, 3>>, <<3, 4>>, <<4, 5>> >>],
      [key |-> "start=5,stop=10",
       rows |-> << <<5, 5>>, <<6, 6>>, <<7, 7>> >>] }

\* Both partitions' tables have been processed.
PipelineDone ==
    \A q \in Parents :
        \E k \in 1..Len(received) : received[k].id = q /\ received[k].ret = NoErr

\* C16: in the plan with the filter after the merge and in the plan with the
\* filter before it, every table the yield has received is one of the two
\* wanted, no key twice, and once both partitions are through the yield has
\* exactly the two: the rows below 7.5 of each partition, each row once, in
\* order, 5 rows and 3 rows.
C16_FilterMergeCommute ==
    /\ \A i \in 1..Len(Yielded) :
          /\ [key |-> Yielded[i].key, rows |-> Rows(Yielded[i].bufs)] \in Want
          /\ \A j \in 1..Len(Yielded) : Yielded[i].key = Yielded[j].key => i = j
    /\ PipelineDone => Len(Yielded) = Cardinality(Want)

\* C16 witness: the plan with the filter before the merge is through, the
\* table of the second partition first, the tables having come in two buffers.
C16_Witness ==
    /\ PipelineDone /\ ~FilterAfterMerge
    /\ Len(Yielded) = 2
    /\ Yielded[1].key = SourceKey["p2"] /\ Len(Rows(Yielded[1].bufs)) = 3
    /\ Len(Rows(Yielded[2].bufs)) = 5
    /\ \A i \in 1..2 : Len(Yielded[i].bufs) = 2

\* The plan with the filter after the merge is through as well.
C16_WitnessFilterAfterMerge ==
    /\ PipelineDone /\ FilterAfterMerge
    /\ Len(Yielded) = 2
    /\ \A i \in 1..2 : Len(Yielded[i].bufs) = 2

\* ------------------------------------------------------------------ C17

\* C17: whatever Finish calls the parents make, the Dataset's Finish is
\* called at most once: once the Dataset has been finished, no later Finish
\* of a parent hands it anything.
C17_DatasetFinishedOnce ==
    \A i, j \in DsAt("Finish") : i = j

\* ------------------------------------------------------------------ C18

\* The methods that take t.mu.
LockedOps == {"UpdateWatermark", "UpdateProcessingTime", "Finish"}

\* The parent-state map after call e alone, and what call number k hands to
\* the Dataset when it runs alone on the map ps it has written.
SerialWrite(ps, e) ==
    CASE e.op = "UpdateWatermark" -> [ps EXCEPT ![e.id].mark = e.arg]
      [] e.op = "UpdateProcessingTime" -> [ps EXCEPT ![e.id].processing = e.arg]
      [] e.op = "Finish" -> [ps EXCEPT ![e.id].finished = TRUE]
SerialCalls(ps, e, k) ==
    CASE e.op = "UpdateWatermark" ->
            <<[op |-> e.op, arg |-> Least({ps[q].mark : q \in Parents}),
               from |-> e.id, n |-> k]>>
      [] e.op = "UpdateProcessingTime" ->
            <<[op |-> e.op, arg |-> Least({ps[q].processing : q \in Parents}),
               from |-> e.id, n |-> k]>>
      [] e.op = "Finish" ->
            (IF e.arg # NoErr
             THEN <<[op |-> e.op, arg |-> e.arg, from |-> e.id, n |-> k]>> ELSE <<>>)
            \o (IF \A q \in Parents : ps[q].finished
                THEN <<[op |-> e.op, arg |-> NoErr, from |-> e.id, n |-> k]>> ELSE <<>>)

\* The calls received from number k on, run one after the other in the order
\* they took the lock, from map ps and Dataset calls out: the map and the
\* Dataset calls at the end (a call still inside has written, not yet called).
RECURSIVE SerialRun(_, _, _)
SerialRun(ps, k, out) ==
    IF k > Len(received) THEN [ps |-> ps, out |-> out]
    ELSE IF received[k].op \notin LockedOps THEN SerialRun(ps, k + 1, out)
    ELSE LET ps2 == SerialWrite(ps, received[k])
         IN SerialRun(ps2, k + 1,
                      out \o (IF received[k].ret = "pending" THEN <<>>
                              ELSE SerialCalls(ps2, received[k], k)))

\* What holds of every state: at most one call is inside its critical
\* section, and it is the holder of the lock; the map and the calls the
\* Dataset has received from the three methods are those of the serial run.
C18_Mutex ==
    /\ \A q, r \in Parents : (pc[q] = "cs" /\ pc[r] = "cs") => q = r
    /\ \A q \in Parents : pc[q] = "cs" <=> mu = q
    /\ LET run == SerialRun([q \in Parents |-> parallelParentState], 1, <<>>)
       IN /\ parentState = run.ps
          /\ SelectSeq(dsLog, LAMBDA d : d.op \in LockedOps) = run.out

\* C18: every write of the parent-state map is made by the call that takes
\* the lock in that step, to its own parent's record, and every Dataset call
\* of the three methods is made by the holder of the lock, which reads the
\* map in that step; at most one call is inside its critical section; and
\* the map and the values forwarded are those of the calls run one at a time
\* in the order they took the lock.
C18_LockGuardsParentState ==
    /\ []C18_Mutex
    /\ [][ /\ parentState' # parentState =>
                /\ mu = "free" /\ mu' \in Parents
                /\ \A q \in Parents \ {mu'} : parentState'[q] = parentState[q]
           /\ \A i \in (Len(dsLog) + 1)..Len(dsLog') :
                dsLog'[i].op \in LockedOps => mu = dsLog'[i].from ]_vars

\* C18 witness: a Finish is inside its critical section, after calls of the
\* other parent that took the lock, while a Process of the other parent is
\* under way.
C18_Witness ==
    \E q, r \in Parents :
        /\ q # r /\ mu = q /\ pc[q] = "cs" /\ call[q].op = "Finish"
        /\ pc[r] = "copied"
        /\ \E i \in 1..Len(dsLog) : dsLog[i].from = r /\ dsLog[i].op \in LockedOps

\* ------------------------------------------------------------------ C19

\* Parent q has called Finish.
HasCalledFinish(q) ==
    \E k \in 1..Len(received) : received[k].op = "Finish" /\ received[k].id = q

\* C19: once every parent has called Finish, with an error or without, the
\* Dataset's Finish is called in the end; and every Finish call that waits
\* for the lock gets it and returns.
C19_DatasetEventuallyFinished ==
    /\ (\A q \in Parents : HasCalledFinish(q)) ~> (DsAt("Finish") # {})
    /\ \A q \in Parents : (pc[q] = "wait") ~> (pc[q] = "done")

\* C19 witness: every parent has called Finish with no error, one of them
\* while another call was under way, all have returned and the Dataset has
\* been finished.
C19_Witness ==
    /\ \A q \in Parents : HasCalledFinish(q) /\ pc[q] = "done"
    /\ \A k \in 1..Len(received) : received[k].op = "Finish" => received[k].arg = NoErr
    /\ \E k \in 1..Len(received) : received[k].op = "Finish" /\ received[k].open # {}
    /\ DsAt("Finish") # {}

\* ------------------------------------------------------------------ C20

\* The call received in this step, if one is.
NewCall == received'[Len(received')]

\* C20: the step in which UpdateProcessingTime(id, pt) is received changes
\* parent id's processing-time record to pt and nothing else of the map, no
\* watermark and no finished flag; the step in which it calls the Dataset
\* hands it the least of the processing-time records and changes nothing of
\* the map; and likewise UpdateWatermark(id, m) with the watermark records.
C20_FrameOfUpdates ==
    [][ /\ (Len(received') = Len(received) + 1 /\ NewCall.op = "UpdateProcessingTime")
            => parentState' = [parentState EXCEPT ![NewCall.id].processing = NewCall.arg]
        /\ (Len(received') = Len(received) + 1 /\ NewCall.op = "UpdateWatermark")
            => parentState' = [parentState EXCEPT ![NewCall.id].mark = NewCall.arg]
        /\ \A i \in (Len(dsLog) + 1)..Len(dsLog') :
              /\ dsLog'[i].op = "UpdateProcessingTime" =>
                    /\ dsLog'[i].arg = Least({parentState[q].processing : q \in Parents})
                    /\ parentState' = parentState
              /\ dsLog'[i].op = "UpdateWatermark" =>
                    /\ dsLog'[i].arg = Least({parentState[q].mark : q \in Parents})
                    /\ parentState' = parentState ]_vars

\* C20 witness: a processing time has just been forwarded that is not the
\* least watermark, a parent's watermark and processing time differing and a
\* parent being finished.
C20_Witness ==
    /\ dsLog # <<>>
    /\ dsLog[Len(dsLog)].op = "UpdateProcessingTime"
    /\ dsLog[Len(dsLog)].arg # Least({parentState[q].mark : q \in Parents})
    /\ \E q \in Parents : parentState[q].mark # parentState[q].processing
    /\ \E q \in Parents : parentState[q].finished

\* ------------------------------------------------------------------ C21

\* The Dataset calls made inside call number k of the operator.
MadeIn(k) == {i \in 1..Len(dsLog) : dsLog[i].n = k}

\* Every RetractTable(id, key) received has handed the Dataset one call, a
\* RetractTable of the same key, and has returned what that call returned.
C21_OneRetraction ==
    \A k \in 1..Len(received) :
        received[k].op = "RetractTable" =>
            /\ Cardinality(MadeIn(k)) = 1
            /\ \A i \in MadeIn(k) :
                  /\ dsLog[i].op = "RetractTable"
                  /\ dsLog[i].arg = received[k].arg
                  /\ dsLog[i].ret = received[k].ret

\* C21: RetractTable(id, key) hands the Dataset exactly one retraction, of
\* the same group key, whatever the parent and the parent-state map, returns
\* what the Dataset returned, and the step leaves every parent's watermark,
\* processing time and finished flag as they were (and the lock too).
C21_RetractTablePassesThrough ==
    /\ []C21_OneRetraction
    /\ [][ (Len(received') = Len(received) + 1 /\ NewCall.op = "RetractTable") =>
                /\ parentState' = parentState
                /\ mu' = mu
                /\ Len(dsLog') = Len(dsLog) + 1
                /\ dsLog'[Len(dsLog')].op = "RetractTable"
                /\ dsLog'[Len(dsLog')].arg = NewCall.arg
                /\ NewCall.ret = dsLog'[Len(dsLog')].ret ]_vars

\* C21 witness: a retraction that the Dataset failed was made while another
\* parent was inside a locked method, and one that it accepted was made by
\* the other parent, the map being no longer the initial one.
C21_Witness ==
    /\ \E k \in 1..Len(received) :
          /\ received[k].op = "RetractTable" /\ received[k].ret = "eretract"
          /\ received[k].open # {}
    /\ \E k, l \in 1..Len(received) :
          /\ received[k].op = "RetractTable" /\ received[l].op = "RetractTable"
          /\ received[l].ret = NoErr
          /\ received[k].id # received[l].id
    /\ \E q \in Parents : parentState[q] # parallelParentState

\* ------------------------------------------------------------------ C22

\* The Process calls whose copy of the table failed.
FailedCopies ==
    {k \in 1..Len(received) : received[k].op = "Process" /\ received[k].ret = "ecopy"}

\* No Dataset call was ever made inside a Process call whose copy failed,
\* and every table the Dataset has received comes from a Process call whose
\* copy worked.
C22_NothingForwarded ==
    /\ \A k \in FailedCopies : MadeIn(k) = {}
    /\ \A i \in DsAt("Process") :
          /\ received[dsLog[i].n].op = "Process"
          /\ received[dsLog[i].n].ret \in {NoErr, "pending"}

\* C22: a Process whose copy of the table fails returns the error of the
\* copy in the step it is received, hands nothing to the Dataset then or
\* later, leaves the parent-state map (and the lock and the calls under way)
\* as they were, and is not tried again by the operator.
C22_CopyFailureReturned ==
    /\ []C22_NothingForwarded
    /\ [][ (Len(received') = Len(received) + 1 /\ NewCall.op = "Process"
                /\ NewCall.ret # "pending") =>
                /\ NewCall.ret = "ecopy"
                /\ parentState' = parentState
                /\ dsLog' = dsLog
                /\ mu' = mu /\ pc' = pc /\ call' = call ]_vars

\* C22 witness: the copy of a table of two buffers failed when the map was
\* no longer the initial one, and a later call of the same parent has
\* reached the Dataset.
C22_Witness ==
    \E k \in FailedCopies :
        /\ Len(received[k].arg.bufs) = 2
        /\ \E i \in 1..Len(dsLog) : dsLog[i].n > k /\ dsLog[i].from = received[k].id
        /\ \E q \in Parents : parentState[q] # parallelParentState

\* ------------------------------------------------------------------ C23

\* C23: every Finish(id, err) with a non-nil err that has returned has handed
\* err to the Dataset and has left parent id's finished flag false.
C23_ErroringParentNotFinished ==
    \A k \in 1..Len(received) :
        (received[k].op = "Finish" /\ received[k].arg # NoErr
            /\ received[k].ret # "pending") =>
            /\ \E i \in MadeIn(k) :
                  dsLog[i].op = "Finish" /\ dsLog[i].arg = received[k].arg
            /\ ~parentState[received[k].id].finished

\* ------------------------------------------------------------------ C26

\* The map has one record for each parent id given at construction, and a
\* parent that no call has named yet has the record it was constructed with.
C26_MapOfParents ==
    /\ DOMAIN parentState = Parents
    /\ \A q \in Parents :
          (\A k \in 1..Len(received) : received[k].id # q)
              => parentState[q] = parallelParentState

\* C26: the map starts with the record (0, 0, false) for each parent id
\* given at construction, its key set is that set of ids in every state, and
\* no step takes back a finished flag that is set.
C26_ParentStateInvariants ==
    /\ parentState = [q \in Parents |-> [mark |-> 0, processing |-> 0,
                                          finished |-> FALSE]]
    /\ []C26_MapOfParents
    /\ [][ \A q \in Parents : parentState[q].finished => parentState'[q].finished ]_vars

\* C26 witness: a parent has finished and the other parent has since had its
\* watermark and its processing time written.
C26_Witness ==
    \E q, r \in Parents :
        /\ q # r /\ parentState[q].finished /\ pc[q] = "done"
        /\ parentState[r].mark # 0 /\ parentState[r].processing # 0
        /\ \E k \in 1..Len(received) :
              /\ received[k].op = "Finish" /\ received[k].id = q
              /\ \A l \in (k + 1)..Len(received) : received[l].id = r
              /\ k < Len(received) - 1

\* ------------------------------------------------------------------ C24

\* Once mem.AssertSize has been evaluated, results.More() has returned false,
\* every result handed out has had its tables read to the end, and the
\* iterator has been released; no call of logger.Errorf is made before; a
\* size other than 0 makes Run return the leak error, which is no error of
\* the execution, and Run returns the leak error for no other reason.
C24_AssertedAfterRelease ==
    /\ rsize # 0 - 1 => (released /\ rn = rdone /\ rpc \in {"asserted", "returned"})
    /\ rsize = 0 - 1 => lerrs = 0
    /\ Producing => rsize = 0 - 1
    /\ (rpc = "returned" /\ rsize > 0) => rret = LeakError
    /\ rret = LeakError => rsize > 0
    /\ LeakError \notin Errors \cup StartErrors \cup {OutputError, NoErr}

\* C24: the leak assertion is evaluated in one step only, after the loop
\* over the results has ended with every result read to its end and after
\* results.Release(), never while the query is producing results; and a size
\* other than 0 is reported as the error "Memory leak detected".
C24_LeakAssertionAtTeardown ==
    /\ []C24_AssertedAfterRelease
    /\ [][ (rsize' # rsize \/ lerrs' # lerrs) =>
                /\ rpc = "check" /\ released /\ rn = rdone
                /\ rsize' = allocated /\ allocated' = allocated ]_vars

\* C24 witness: Run has read two results with tables, released the iterator,
\* found bytes still allocated and returned the leak error.
C24_Witness ==
    /\ rpc = "returned" /\ rret = LeakError
    /\ rn >= 2 /\ rdone = rn /\ output > 0
    /\ rsize > 0 /\ released

\* ------------------------------------------------------------------ C25

\* C25: when Run has returned after results.Err() gave a non-nil error, it
\* has returned that error; when it has returned after results.Err() gave
\* nil and there was output, it has returned the error for unexpected
\* output; whether or not the leak assertion failed in that run.
C25_ExecutionErrorReturned ==
    rpc = "returned" =>
        /\ rqe \notin {"none", NoErr} => rret = rqe
        /\ (rqe = NoErr /\ output > 0) => rret = OutputError

\* ------------------------------------------------------------------ C27

\* The code that call number k appended.
Appended(k) == SubSeq(code, ilog[k].from + 1, ilog[k].to)

\* Of every call that returned nil: the code it appended starts with
\* IN_CONS_SIDE_EFFECTS and ends with IN_PROGRAM_START, each
\* IN_APPEND_SIDE_EFFECT in it comes straight after an IN_LOAD_VALUE, and
\* those that Synthesis appended are of expression statements and were
\* emitted with the package name main.
C27_WellFormed ==
    \A k \in 1..Len(ilog) :
        ilog[k].ret = NoErr =>
            LET seg == Appended(k)
            IN /\ Len(seg) >= 2
               /\ seg[1].in = "IN_CONS_SIDE_EFFECTS"
               /\ seg[Len(seg)].in = "IN_PROGRAM_START"
               /\ \A i \in 1..Len(seg) :
                     seg[i].in = "IN_APPEND_SIDE_EFFECT" =>
                        /\ i > 1 /\ seg[i - 1].in = "IN_LOAD_VALUE"
                        /\ ilog[k].op = "Synthesis" =>
                              /\ seg[i].args.node.kind = "ExpressionStatement"
                              /\ seg[i].args.pkg = PackageMain

\* C27: a call of Synthesis or SynthesisTo leaves the instructions already
\* in itrp.code as they are and appends after them; what a call that returns
\* nil has appended starts with IN_CONS_SIDE_EFFECTS, ends with
\* IN_PROGRAM_START and has an IN_LOAD_VALUE straight before each
\* IN_APPEND_SIDE_EFFECT; and Synthesis emits side-effect instructions for
\* expression statements only, and only while the package is main.
C27_SynthesisAppends ==
    /\ []C27_WellFormed
    /\ [][ /\ Len(code') >= Len(code)
           /\ SubSeq(code', 1, Len(code)) = code
           /\ Len(ilog') = Len(ilog) + 1 =>
                 /\ ilog'[Len(ilog')].from = Len(code)
                 /\ ilog'[Len(ilog')].to = Len(code')
                 /\ Len(code') > Len(code) ]_vars

\* C27 witness: after a call that failed and left instructions without an
\* IN_PROGRAM_START, Synthesis has returned nil having emitted two side
\* effects.
C27_Witness ==
    \E k \in 2..Len(ilog) :
        /\ ilog[k].op = "Synthesis" /\ ilog[k].ret = NoErr
        /\ Cardinality({i \in 1..Len(Appended(k)) :
                           Appended(k)[i].in = "IN_APPEND_SIDE_EFFECT"}) = 2
        /\ ilog[k - 1].ret # NoErr
        /\ Len(Appended(k - 1)) = 3

====
